---- MODULE Spec2Model ----
(***************************************************************************)
(* btc-transaction-utils: the multisig redeem-script codec                 *)
(* (src/src/multisig.rs), the signature value (src/src/sign.rs) and the    *)
(* P2WPK / P2WSH input signers (src/src/p2wpk.rs, src/src/p2wsh.rs).       *)
(*                                                                         *)
(* Scripts, keys, signatures and witnesses are byte sequences (0..255).    *)
(* The script primitives of the `bitcoin` crate (Builder::push_int,        *)
(* Builder::push_slice, the Instructions iterator, read_uint) and the      *)
(* encodings of the `secp256k1` crate are modelled at the calls the        *)
(* repository makes to them.                                               *)
(***************************************************************************)
EXTENDS Integers, Sequences, FiniteSets, TLC

VARIABLES
    builder,    \* RedeemScriptBuilder: [quorum, public_keys]
    redeem,     \* the last to_script / from_script: [op, input, ok, err, script]
    content,    \* result of the last RedeemScript::content(): [called, panic, quorum, public_keys]
    overflow_checks,  \* the build profile: TRUE when arithmetic overflow aborts (debug)
    signer,     \* the InputSigner in use: [kind, public_key, network, script]
    tx,         \* the transaction being signed
    target,     \* index of the input the caller signs (TxInRef::index)
    slot,       \* index of the input the caller hands to spend_input (&mut TxIn)
    sig,        \* the InputSignature the caller holds: [bytes, sk, index, amount]
    sigs,       \* the InputSignatures collected for a multisig input
    ret,        \* the last signer call: [op, ok, err, pk, value, flip, whole, index]
    sigval,     \* the last signature value made: [op, input, type, ok, err, bytes]
    hex         \* the last conversion of a redeem script to hex and back

cvars == <<builder, redeem, content, overflow_checks>>

svars == <<signer, tx, target, slot, sig, sigs, ret>>

xvars == <<sigval, hex>>

vars == <<builder, redeem, content, overflow_checks,
          signer, tx, target, slot, sig, sigs, ret, sigval, hex>>

(***************************************************************************)
(* Bounds of the model.                                                    *)
(***************************************************************************)
\* key pairs the callers own
NumKeys == 2
\* public_key() appends one key at a time up to this many keys
MaxPushed == 3
\* the longest key list handed to with_public_keys
MaxLong == 128
\* keys between the quorum and the count of a script handed to from_script
MaxParseKeys == 2
\* signatures collected before spend_input is called
MaxSigs == 2

(***************************************************************************)
(* Bytes and opcodes.                                                      *)
(***************************************************************************)
OP_PUSHDATA1 == 76
OP_PUSHDATA2 == 77
OP_PUSHDATA4 == 78
OP_PUSHNUM_NEG1 == 79
OP_PUSHNUM_1 == 81
OP_PUSHNUM_16 == 96
OP_RETURN == 106
OP_CHECKMULTISIG == 174

\* n zero bytes
Zeros(n) == [i \in 1..n |-> 0]

\* the largest value the model's integers hold; stands for usize::MAX where the
\* code casts a negative number to usize
UsizeMax == 2147483647

(***************************************************************************)
(* secp256k1 public keys.  A point is [x, odd]; key pair k owns the point  *)
(* with x = k.  The points on the curve are those with x in CurveX.        *)
(***************************************************************************)
CurveX == 1..(NumKeys + 1)

PublicKeyOf(sk) == [x |-> sk, odd |-> (sk % 2 = 1)]

SecretKeys == 1..NumKeys

PubKeys == {PublicKeyOf(sk) : sk \in SecretKeys}

\* the y coordinate of a point, with the parity the point has
YOf(pk) == 2 * pk.x + (IF pk.odd THEN 1 ELSE 0)

\* PublicKey::serialize: the 33-byte compressed form
Serialize(pk) == <<(IF pk.odd THEN 3 ELSE 2)>> \o Zeros(31) \o <<pk.x>>

\* PublicKey::serialize_uncompressed: the 65-byte form
SerializeUncompressed(pk) ==
    <<4>> \o Zeros(31) \o <<pk.x>> \o Zeros(31) \o <<YOf(pk)>>

\* PublicKey::from_slice: [ok, key]
NoKey == [x |-> 0, odd |-> FALSE]

FromSlice(slice) ==
    IF /\ Len(slice) = 33
       /\ slice[1] \in {2, 3}
       /\ SubSeq(slice, 2, 32) = Zeros(31)
       /\ slice[33] \in CurveX
    THEN [ok |-> TRUE, key |-> [x |-> slice[33], odd |-> (slice[1] = 3)]]
    ELSE IF /\ Len(slice) = 65
            /\ slice[1] = 4
            /\ SubSeq(slice, 2, 32) = Zeros(31)
            /\ slice[33] \in CurveX
            /\ SubSeq(slice, 34, 64) = Zeros(31)
            /\ slice[65] \in {2 * slice[33], 2 * slice[33] + 1}
    THEN [ok |-> TRUE, key |-> [x |-> slice[33], odd |-> (slice[65] % 2 = 1)]]
    ELSE [ok |-> FALSE, key |-> NoKey]

(***************************************************************************)
(* bitcoin::blockdata::script::Builder                                     *)
(***************************************************************************)
\* build_scriptint: little-endian magnitude with a sign bit, for data > 0
RECURSIVE ScriptIntBytes(_)
ScriptIntBytes(abs) ==
    IF abs > 255 THEN <<abs % 256>> \o ScriptIntBytes(abs \div 256)
    ELSE IF abs >= 128 THEN <<abs, 0>>
    ELSE <<abs>>

\* Builder::push_slice
PushSlice(data) ==
    LET n == Len(data) IN
    IF n < 76 THEN <<n>> \o data
    ELSE IF n < 256 THEN <<OP_PUSHDATA1, n>> \o data
    ELSE <<OP_PUSHDATA2, n % 256, n \div 256>> \o data

\* Builder::push_int, for data >= 0 (the builder pushes a quorum and a count)
PushInt(data) ==
    IF data >= 1 /\ data <= 16 THEN <<data + OP_PUSHNUM_1 - 1>>
    ELSE IF data = 0 THEN <<0>>
    ELSE PushSlice(ScriptIntBytes(data))

(***************************************************************************)
(* bitcoin::blockdata::script::Instructions and read_uint                  *)
(***************************************************************************)
\* read_uint(data, data.len()): little-endian, unsigned.  The byte at index i
\* is shifted left by 8 * i bits; from the ninth byte on the shift overflows,
\* and without overflow checks its amount wraps at the 64 bits of usize.
Pow256(k) == IF k = 0 THEN 1 ELSE IF k = 1 THEN 256 ELSE IF k = 2 THEN 65536
             ELSE 16777216 * 256

RECURSIVE ReadUintFrom(_, _)
ReadUintFrom(data, i) ==
    IF i >= Len(data) THEN 0
    ELSE (IF data[i + 1] = 0 THEN 0 ELSE data[i + 1] * Pow256(i % 8))
         + ReadUintFrom(data, i + 1)

ReadUint(data) == ReadUintFrom(data, 0)

ReadUintOverflows(data) == Len(data) > 8

NoInstr == [kind |-> "none", data |-> <<>>, op |-> 0, next |-> 0]

\* a push of n bytes whose data starts hdr bytes after position i
PushAt(s, i, hdr, n) ==
    IF Len(s) < i + hdr + n - 1
    THEN [kind |-> "error", data |-> <<>>, op |-> 0, next |-> Len(s) + 1]
    ELSE [kind |-> "push", data |-> SubSeq(s, i + hdr, i + hdr + n - 1),
          op |-> 0, next |-> i + hdr + n]

\* Instructions::next at position i of script s (1-based); "none" at the end
InstrAt(s, i) ==
    IF i > Len(s) THEN NoInstr
    ELSE LET b == s[i] IN
         IF b < OP_PUSHDATA1 THEN PushAt(s, i, 1, b)
         ELSE IF b = OP_PUSHDATA1 THEN
              IF Len(s) < i + 1
              THEN [kind |-> "error", data |-> <<>>, op |-> 0, next |-> Len(s) + 1]
              ELSE PushAt(s, i, 2, s[i + 1])
         ELSE IF b = OP_PUSHDATA2 THEN
              IF Len(s) < i + 2
              THEN [kind |-> "error", data |-> <<>>, op |-> 0, next |-> Len(s) + 1]
              ELSE PushAt(s, i, 3, s[i + 1] + 256 * s[i + 2])
         ELSE IF b = OP_PUSHDATA4 THEN
              IF Len(s) < i + 4
              THEN [kind |-> "error", data |-> <<>>, op |-> 0, next |-> Len(s) + 1]
              ELSE PushAt(s, i, 5, ReadUint(SubSeq(s, i + 1, i + 4)))
         ELSE [kind |-> "op", data |-> <<>>, op |-> b, next |-> i + 1]

(***************************************************************************)
(* RedeemScriptContent::parse                                              *)
(***************************************************************************)
\* read_usize: [some, panic, num]; panic when read_uint aborts on overflow
ReadUsize(instr) ==
    IF instr.kind = "op" THEN
        IF instr.op >= OP_PUSHNUM_1 /\ instr.op <= OP_PUSHNUM_16
        THEN [some |-> TRUE, panic |-> FALSE, num |-> instr.op - OP_PUSHNUM_1 + 1]
        ELSE IF instr.op = OP_PUSHNUM_NEG1
        THEN [some |-> TRUE, panic |-> FALSE, num |-> UsizeMax]
        ELSE [some |-> FALSE, panic |-> FALSE, num |-> 0]
    ELSE IF instr.kind = "push"
    THEN IF overflow_checks /\ ReadUintOverflows(instr.data)
         THEN [some |-> FALSE, panic |-> TRUE, num |-> 0]
         ELSE [some |-> TRUE, panic |-> FALSE, num |-> ReadUint(instr.data)]
    ELSE [some |-> FALSE, panic |-> FALSE, num |-> 0]

\* at most `turns` turns of the while-let loop that collects the public keys:
\* [ok, done, keys, next]
RECURSIVE ParseKeysTurns(_, _, _, _)
ParseKeysTurns(s, i, acc, turns) ==
    LET instr == InstrAt(s, i) IN
    IF instr.kind = "push" /\ Len(instr.data) # 1
    THEN LET pk == FromSlice(instr.data) IN
         IF ~pk.ok
         THEN [ok |-> FALSE, done |-> TRUE, keys |-> acc, next |-> i]
         ELSE IF turns = 1
         THEN [ok |-> TRUE, done |-> FALSE, keys |-> Append(acc, pk.key),
               next |-> instr.next]
         ELSE ParseKeysTurns(s, instr.next, Append(acc, pk.key), turns - 1)
    ELSE [ok |-> TRUE, done |-> TRUE, keys |-> acc, next |-> i]

\* the whole loop, sixteen turns at a time (the evaluator's stack is shallow)
RECURSIVE ParseKeys(_, _, _)
ParseKeys(s, i, acc) ==
    LET r == ParseKeysTurns(s, i, acc, 16) IN
    IF r.done THEN r ELSE ParseKeys(s, r.next, r.keys)

\* an Err(e); e = "panic" stands for the abort of the call, which returns nothing
ParseErr(e) == [ok |-> FALSE, err |-> e, quorum |-> 0, public_keys |-> <<>>]

\* parse that reports a key that does not decode as a wrong key count
ParseKeyErrorAsCount(s) ==
    LET first == InstrAt(s, 1)
        q     == ReadUsize(first)
    IN
    IF q.panic THEN ParseErr("panic")
    ELSE IF ~q.some THEN ParseErr("NoQuorum")
    ELSE
    LET ks == ParseKeys(s, first.next, <<>>) IN
    IF ~ks.ok THEN ParseErr("NotEnoughPublicKeys")
    ELSE
    LET tail  == InstrAt(s, ks.next)
        count == ReadUsize(tail)
    IN
    IF count.panic THEN ParseErr("panic")
    ELSE IF ~count.some THEN ParseErr("NotStandard")
    ELSE IF Len(ks.keys) # count.num THEN ParseErr("NotEnoughPublicKeys")
    ELSE
    LET last == InstrAt(s, tail.next) IN
    IF ~(last.kind = "op" /\ last.op = OP_CHECKMULTISIG) THEN ParseErr("NotStandard")
    ELSE [ok |-> TRUE, err |-> "", quorum |-> q.num, public_keys |-> ks.keys]

\* RedeemScriptContent::parse: [ok, err, quorum, public_keys]
Parse(s) ==
    LET first == InstrAt(s, 1)
        q     == ReadUsize(first)
    IN
    IF q.panic THEN ParseErr("panic")
    ELSE IF ~q.some THEN ParseErr("NoQuorum")
    ELSE
    LET ks == ParseKeys(s, first.next, <<>>) IN
    IF ~ks.ok THEN ParseErr("NotStandard")
    ELSE
    LET tail  == InstrAt(s, ks.next)
        count == ReadUsize(tail)
    IN
    IF count.panic THEN ParseErr("panic")
    ELSE IF ~count.some THEN ParseErr("NotStandard")
    ELSE IF Len(ks.keys) # count.num THEN ParseErr("NotEnoughPublicKeys")
    ELSE
    LET last == InstrAt(s, tail.next) IN
    IF ~(last.kind = "op" /\ last.op = OP_CHECKMULTISIG) THEN ParseErr("NotStandard")
    ELSE [ok |-> TRUE, err |-> "", quorum |-> q.num, public_keys |-> ks.keys]

(***************************************************************************)
(* RedeemScriptBuilder::to_script                                          *)
(***************************************************************************)
\* the for loop that pushes keys[lo..hi], each in compressed form, in order
RECURSIVE PushKeysRange(_, _, _)
PushKeysRange(keys, lo, hi) ==
    IF lo > hi THEN <<>>
    ELSE IF lo = hi THEN PushSlice(Serialize(keys[lo]))
    ELSE LET mid == (lo + hi) \div 2 IN
         PushKeysRange(keys, lo, mid) \o PushKeysRange(keys, mid + 1, hi)

PushKeys(keys) == PushKeysRange(keys, 1, Len(keys))

ScriptErr(e) == [ok |-> FALSE, err |-> e, script |-> <<>>]

\* to_script with the key-count check moved before the quorum check
ToScriptResultKeysFirst(b) ==
    LET total_count == Len(b.public_keys) IN
    IF ~(total_count # 0) THEN ScriptErr("NotEnoughPublicKeys")
    ELSE IF ~(b.quorum > 0) THEN ScriptErr("NoQuorum")
    ELSE IF ~(total_count >= b.quorum) THEN ScriptErr("IncorrectQuorum")
    ELSE [ok |-> TRUE, err |-> "",
          script |-> PushInt(b.quorum) \o PushKeys(b.public_keys)
                     \o PushInt(total_count) \o <<OP_CHECKMULTISIG>>]

ToScriptResult(b) ==
    LET total_count == Len(b.public_keys) IN
    IF ~(b.quorum > 0) THEN ScriptErr("NoQuorum")
    ELSE IF ~(total_count # 0) THEN ScriptErr("NotEnoughPublicKeys")
    ELSE IF ~(total_count >= b.quorum) THEN ScriptErr("IncorrectQuorum")
    ELSE [ok |-> TRUE, err |-> "",
          script |-> PushInt(b.quorum) \o PushKeys(b.public_keys)
                     \o PushInt(total_count) \o <<OP_CHECKMULTISIG>>]

\* RedeemScript::from_script
FromScriptResult(s) ==
    LET c == Parse(s) IN
    IF c.ok THEN [ok |-> TRUE, err |-> "", script |-> s]
    ELSE ScriptErr(c.err)

(***************************************************************************)
(* Display and FromStr for RedeemScript: text is a sequence of characters. *)
(***************************************************************************)
LowerDigits ==
    <<"0", "1", "2", "3", "4", "5", "6", "7", "8", "9", "a", "b", "c", "d", "e", "f">>

UpperDigits ==
    <<"0", "1", "2", "3", "4", "5", "6", "7", "8", "9", "A", "B", "C", "D", "E", "F">>

\* the text of a script with the digits of a given alphabet
HexWith(digits, bytes) ==
    [k \in 1..(2 * Len(bytes)) |->
        IF k % 2 = 1 THEN digits[(bytes[(k + 1) \div 2] \div 16) + 1]
        ELSE digits[(bytes[k \div 2] % 16) + 1]]

\* fmt::LowerHex that writes the digits above nine in upper case
ToHexUpper(bytes) == HexWith(UpperDigits, bytes)

\* fmt::LowerHex for Script: two lower-case digits for each byte
ToHex(bytes) == HexWith(LowerDigits, bytes)

\* the value of a hex digit of either case, -1 for any other character
DigitVal(c) ==
    IF \E k \in 1..16 : LowerDigits[k] = c
    THEN (CHOOSE k \in 1..16 : LowerDigits[k] = c) - 1
    ELSE IF \E k \in 1..16 : UpperDigits[k] = c
    THEN (CHOOSE k \in 1..16 : UpperDigits[k] = c) - 1
    ELSE -1

\* hex::decode: [ok, err, bytes]
HexDecode(text) ==
    IF Len(text) % 2 = 1 THEN [ok |-> FALSE, err |-> "OddLength", bytes |-> <<>>]
    ELSE IF \E k \in 1..Len(text) : DigitVal(text[k]) = -1
    THEN [ok |-> FALSE, err |-> "InvalidHexCharacter", bytes |-> <<>>]
    ELSE [ok |-> TRUE, err |-> "",
          bytes |-> [k \in 1..(Len(text) \div 2) |->
                        16 * DigitVal(text[2 * k - 1]) + DigitVal(text[2 * k])]]

\* RedeemScript::from_str
FromStrResult(text) ==
    LET h == HexDecode(text) IN
    IF h.ok THEN FromScriptResult(h.bytes) ELSE ScriptErr(h.err)

\* RedeemScript::content: parse(...).unwrap()
ContentResult(s) ==
    LET c == Parse(s) IN
    [called |-> TRUE, panic |-> ~c.ok, quorum |-> c.quorum, public_keys |-> c.public_keys]

(***************************************************************************)
(* Hashing.  SHA-256d and HASH160 are primitives of the collaborators; the *)
(* model folds a sequence of numbers into a number below HashMod.          *)
(***************************************************************************)
HashMod == 32003

RECURSIVE HashRange(_, _, _)
HashRange(seq, lo, hi) ==
    IF lo > hi THEN 0
    ELSE IF lo = hi THEN (((seq[lo] % HashMod) + 1) * (7 * lo + 1)) % HashMod
    ELSE LET mid == (lo + hi) \div 2 IN
         (HashRange(seq, lo, mid) + 31 * HashRange(seq, mid + 1, hi)) % HashMod

Hash(seq) == (HashRange(seq, 1, Len(seq)) + Len(seq)) % HashMod

\* Hash160::from_data: 20 bytes
Hash160(data) == Zeros(18) \o <<Hash(data) \div 256, Hash(data) % 256>>

(***************************************************************************)
(* Transactions (bitcoin::blockdata::transaction) and TxOutValue.          *)
(***************************************************************************)
\* the previous transaction: its txid and the values of its outputs
PrevTxid == 7

PrevOutputs == <<10, 20>>

\* the unsigned transaction of the tests, with a second input; the
\* sequence numbers are 0xFFFF where the tests have 0xFFFFFFFF
Tx0 ==
    [version |-> 2,
     lock_time |-> 0,
     input |-> <<[prev_hash |-> PrevTxid, prev_index |-> 1, script_sig |-> <<>>,
                  sequence |-> 65535, witness |-> <<>>],
                 [prev_hash |-> PrevTxid, prev_index |-> 0, script_sig |-> <<>>,
                  sequence |-> 65535, witness |-> <<>>]>>,
     output |-> <<[value |-> 0, script_pubkey |-> <<OP_RETURN, 2, 72, 105>>]>>]

\* TxInRef::input, for a 0-based index
InputAt(t, i) == t.input[i + 1]

\* TxInRef::new with the assertion off by one
TxInRefNewResultInclusive(t, i) ==
    IF Len(t.input) >= i THEN [ok |-> TRUE, err |-> "", index |-> i]
    ELSE [ok |-> FALSE, err |-> "panic", index |-> 0]

\* TxInRef::new: assert!(transaction.input.len() > index), then index()
TxInRefNewResult(t, i) ==
    IF Len(t.input) > i THEN [ok |-> TRUE, err |-> "", index |-> i]
    ELSE [ok |-> FALSE, err |-> "panic", index |-> 0]

\* TxOutValue: Amount(v), PrevTx(&tx) (its outputs' values), PrevOut(&out)
Amount(v) == [form |-> "Amount", amount |-> v, outputs |-> <<>>]

PrevTx(outs) ==
    [form |-> "PrevTx", amount |-> 0, outputs |-> outs, txid |-> PrevTxid]

\* PrevTx(&t) of a transaction t that no input of Tx0 refers to
ForeignTx(outs) == [PrevTx(outs) EXCEPT !.txid = PrevTxid + 1]

PrevOut(v) == [form |-> "PrevOut", amount |-> v, outputs |-> <<>>]

\* TxOutValue::amount that takes the first output of the previous transaction
AmountOfFirstOutput(value, t, i) ==
    IF value.form = "PrevTx"
    THEN IF Len(value.outputs) = 0 THEN [panic |-> TRUE, amount |-> 0]
         ELSE [panic |-> FALSE, amount |-> value.outputs[1]]
    ELSE [panic |-> FALSE, amount |-> value.amount]

\* TxOutValue::amount that looks at the transaction the input refers to
AmountOfSameTx(value, t, i) ==
    IF value.form = "PrevTx"
    THEN LET n == InputAt(t, i).prev_index IN
         IF value.txid # InputAt(t, i).prev_hash \/ n + 1 > Len(value.outputs)
         THEN [panic |-> TRUE, amount |-> 0]
         ELSE [panic |-> FALSE, amount |-> value.outputs[n + 1]]
    ELSE [panic |-> FALSE, amount |-> value.amount]

\* TxOutValue::amount: [panic, amount]; indexing past the outputs aborts
AmountOf(value, t, i) ==
    IF value.form = "PrevTx"
    THEN LET n == InputAt(t, i).prev_index IN
         IF n + 1 > Len(value.outputs)
         THEN [panic |-> TRUE, amount |-> 0]
         ELSE [panic |-> FALSE, amount |-> value.outputs[n + 1]]
    ELSE [panic |-> FALSE, amount |-> value.amount]

(***************************************************************************)
(* bitcoin::util::bip143::SighashComponents                                *)
(***************************************************************************)
HashPrevouts(t) ==
    Hash([k \in 1..(2 * Len(t.input)) |->
            IF k % 2 = 1 THEN t.input[(k + 1) \div 2].prev_hash
            ELSE t.input[k \div 2].prev_index])

HashSequence(t) == Hash([k \in 1..Len(t.input) |-> t.input[k].sequence])

HashOutputs(t) ==
    Hash([k \in 1..(2 * Len(t.output)) |->
            IF k % 2 = 1 THEN t.output[(k + 1) \div 2].value
            ELSE Hash(t.output[k \div 2].script_pubkey)])

\* SighashComponents::new(tx).sighash_all(txin, script, value)
SIGHASH_ALL == 1

\* a digest that covers the number of witness elements of the input
SighashAllWithWitness(t, i, script, amount) ==
    LET in == InputAt(t, i) IN
    Hash(<<t.version, HashPrevouts(t), HashSequence(t), in.prev_hash,
           in.prev_index, Len(script), Hash(script), amount, in.sequence,
           HashOutputs(t), t.lock_time, SIGHASH_ALL, Len(in.witness)>>)

SighashAll(t, i, script, amount) ==
    LET in == InputAt(t, i) IN
    Hash(<<t.version, HashPrevouts(t), HashSequence(t), in.prev_hash,
           in.prev_index, Len(script), Hash(script), amount, in.sequence,
           HashOutputs(t), t.lock_time, SIGHASH_ALL>>)

(***************************************************************************)
(* secp256k1: ECDSA over a digest, and the DER encoding of a signature.    *)
(* A signature is a pair (r, s), each below 126 * 256; key pair sk makes   *)
(* exactly one signature of a digest, and nobody else makes it.            *)
(***************************************************************************)
SigMod == 32256

\* Secp256k1::sign
EcdsaSign(digest, sk) ==
    [r |-> 256 + ((digest + 3 * sk) % SigMod), s |-> 256 + ((5 * digest + sk) % SigMod)]

\* Secp256k1::verify
EcdsaVerify(digest, rs, pk) ==
    \E d \in {digest} :
        \E sk \in SecretKeys : PublicKeyOf(sk) = pk /\ rs = EcdsaSign(d, sk)

\* the big-endian bytes of a positive number below 128 * 256 * 256
BigEndian(n) ==
    IF n < 128 THEN <<n>>
    ELSE IF n < 32768 THEN <<n \div 256, n % 256>>
    ELSE <<n \div 65536, (n \div 256) % 256, n % 256>>

RECURSIVE ReadBigEndian(_)
ReadBigEndian(bytes) ==
    IF Len(bytes) = 0 THEN 0
    ELSE 256 * ReadBigEndian(SubSeq(bytes, 1, Len(bytes) - 1)) + bytes[Len(bytes)]

\* Signature::serialize_der
SerializeDer(rs) ==
    LET r == BigEndian(rs.r)
        s == BigEndian(rs.s)
    IN <<48, 4 + Len(r) + Len(s), 2, Len(r)>> \o r \o <<2, Len(s)>> \o s

\* a DER integer: [ok, num]; no bytes, or padding that is not needed, is
\* malformed; a negative or an oversized number reads as 0, which no
\* signature has
DerInteger(bytes) ==
    IF Len(bytes) = 0 THEN [ok |-> FALSE, num |-> 0]
    ELSE IF Len(bytes) > 1 /\ bytes[1] = 0 /\ bytes[2] < 128 THEN [ok |-> FALSE, num |-> 0]
    ELSE IF Len(bytes) > 1 /\ bytes[1] = 255 /\ bytes[2] >= 128 THEN [ok |-> FALSE, num |-> 0]
    ELSE IF bytes[1] >= 128 \/ Len(bytes) > 3 THEN [ok |-> TRUE, num |-> 0]
    ELSE [ok |-> TRUE, num |-> ReadBigEndian(bytes)]

\* Signature::from_der: [ok, rs]
NoRS == [r |-> 0, s |-> 0]

FromDer(b) ==
    IF Len(b) < 8 \/ b[1] # 48 \/ b[2] # Len(b) - 2 \/ b[3] # 2
    THEN [ok |-> FALSE, rs |-> NoRS]
    ELSE
    LET rlen == b[4] IN
    IF 4 + rlen + 2 > Len(b) \/ b[5 + rlen] # 2
    THEN [ok |-> FALSE, rs |-> NoRS]
    ELSE
    LET slen == b[6 + rlen] IN
    IF 6 + rlen + slen # Len(b)
    THEN [ok |-> FALSE, rs |-> NoRS]
    ELSE
    LET r == DerInteger(SubSeq(b, 5, 4 + rlen))
        s == DerInteger(SubSeq(b, 7 + rlen, 6 + rlen + slen))
    IN
    IF r.ok /\ s.ok THEN [ok |-> TRUE, rs |-> [r |-> r.num, s |-> s.num]]
    ELSE [ok |-> FALSE, rs |-> NoRS]

(***************************************************************************)
(* sign.rs: InputSignature, signature_hash, sign_input,                    *)
(* verify_input_signature                                                  *)
(***************************************************************************)
\* InputSignature::new that puts the type byte first
InputSignatureNewTypeFirst(inner, sighash_type) == <<sighash_type>> \o inner

\* the longest InputSignature sign_input makes: a DER signature of two
\* two-byte numbers, and the type byte
MaxSigLen == Len(SerializeDer(EcdsaSign(0, 1))) + 1

\* InputSignature::new
InputSignatureNew(inner, sighash_type) == Append(inner, sighash_type)

\* InputSignature::content / InputSignatureRef::content
SigContent(s) == SubSeq(s, 1, Len(s) - 1)

\* the last byte of an InputSignature
SigTypeByte(s) == s[Len(s)]

\* bitcoin::SigHashType and its discriminants (sighash_type as u8)
SigHashTypes ==
    {"All", "None", "Single", "AllPlusAnyoneCanPay", "NonePlusAnyoneCanPay",
     "SinglePlusAnyoneCanPay"}

AsU8(type) ==
    CASE type = "All" -> 1
      [] type = "None" -> 2
      [] type = "Single" -> 3
      [] type = "AllPlusAnyoneCanPay" -> 129
      [] type = "NonePlusAnyoneCanPay" -> 130
      [] type = "SinglePlusAnyoneCanPay" -> 131

\* SigHashType::from_u32 of a byte: n & 0x9f, then the catch-alls
SigHashFromU32(n) ==
    LET masked == (n % 32) + 128 * (n \div 128) IN
    CASE masked = 1 -> "All"
      [] masked = 2 -> "None"
      [] masked = 3 -> "Single"
      [] masked = 129 -> "AllPlusAnyoneCanPay"
      [] masked = 130 -> "NonePlusAnyoneCanPay"
      [] masked = 131 -> "SinglePlusAnyoneCanPay"
      [] OTHER -> IF masked >= 128 THEN "AllPlusAnyoneCanPay" ELSE "All"

\* InputSignature::sighash_type / InputSignatureRef::sighash_type
SighashTypeOf(s) == SigHashFromU32(SigTypeByte(s))

\* from_bytes that decodes all the bytes, the type byte included
FromBytesResultWhole(bytes) ==
    IF Len(bytes) = 0 THEN [ok |-> FALSE, err |-> "InvalidMessage", bytes |-> <<>>]
    ELSE IF ~FromDer(bytes).ok
    THEN [ok |-> FALSE, err |-> "InvalidSignature", bytes |-> <<>>]
    ELSE [ok |-> TRUE, err |-> "", bytes |-> bytes]

\* InputSignatureRef::from_bytes: [ok, err, bytes]
FromBytesResult(bytes) ==
    IF Len(bytes) = 0 THEN [ok |-> FALSE, err |-> "InvalidMessage", bytes |-> <<>>]
    ELSE IF ~FromDer(SigContent(bytes)).ok
    THEN [ok |-> FALSE, err |-> "InvalidSignature", bytes |-> <<>>]
    ELSE [ok |-> TRUE, err |-> "", bytes |-> bytes]

\* signature_hash aborts when the amount cannot be resolved
SignatureHashPanics(t, i, value) == AmountOf(value, t, i).panic

\* signature_hash, when it returns
SignatureHash(t, i, script, value) ==
    SighashAll(t, i, script, AmountOf(value, t, i).amount)

\* sign_input: [ok, err, sig]
SignInputResult(t, i, script, value, sk) ==
    IF SignatureHashPanics(t, i, value)
    THEN [ok |-> FALSE, err |-> "panic", sig |-> <<>>]
    ELSE [ok |-> TRUE, err |-> "",
          sig |-> InputSignatureNew(
                      SerializeDer(EcdsaSign(SignatureHash(t, i, script, value), sk)),
                      SIGHASH_ALL)]

\* verify_input_signature: [ok, err]
VerifyInputSignature(t, i, script, value, pk, signature) ==
    IF SignatureHashPanics(t, i, value) THEN [ok |-> FALSE, err |-> "panic"]
    ELSE
    LET der == FromDer(signature) IN
    IF ~der.ok THEN [ok |-> FALSE, err |-> "InvalidSignature"]
    ELSE IF EcdsaVerify(SignatureHash(t, i, script, value), der.rs, pk)
    THEN [ok |-> TRUE, err |-> ""]
    ELSE [ok |-> FALSE, err |-> "IncorrectSignature"]

(***************************************************************************)
(* p2wpk::InputSigner and p2wsh::InputSigner                               *)
(***************************************************************************)
\* Address::p2pkh: the hash of the key, and the network the address is for
P2pkh(public_key, network) ==
    [network |-> network, hash |-> Hash160(Serialize(public_key))]

\* Address::script_pubkey of a p2pkh address:
\* OP_DUP OP_HASH160 <hash160 of the key> OP_EQUALVERIFY OP_CHECKSIG
ScriptPubkey(address) == <<118, 169>> \o PushSlice(address.hash) \o <<136, 172>>

\* witness_script whose script starts with the address's version byte
WitnessScriptOfNetwork(public_key, network) ==
    <<IF network = "Bitcoin" THEN 0 ELSE 111>>
        \o ScriptPubkey(P2pkh(public_key, network))

\* p2wpk witness_script: Address::p2pkh(pk, network).script_pubkey()
WitnessScript(public_key, network) == ScriptPubkey(P2pkh(public_key, network))

\* the script both signers hand to sign.rs
SigningScript(sg) ==
    IF sg.kind = "p2wpk" THEN WitnessScript(sg.public_key, sg.network)
    ELSE sg.script

\* witness_data that pushes the signature without its type byte
WpkWitnessDataContentOnly(sg, signature) ==
    <<SigContent(signature), Serialize(sg.public_key)>>

\* p2wpk witness_data
WpkWitnessData(sg, signature) == <<signature, Serialize(sg.public_key)>>

\* witness_data that forgets the placeholder OP_CHECKMULTISIG pops
WshWitnessDataNoPlaceholder(sg, signatures) == signatures \o <<sg.script>>

\* witness_data that pushes the signatures last first
WshWitnessDataReversed(sg, signatures) ==
    <<<<>>>> \o [k \in 1..Len(signatures) |-> signatures[Len(signatures) + 1 - k]]
        \o <<sg.script>>

\* p2wsh witness_data
WshWitnessData(sg, signatures) == <<<<>>>> \o signatures \o <<sg.script>>

\* InputSigner::sign_input
SignerSignInput(sg, t, i, value, sk) ==
    SignInputResult(t, i, SigningScript(sg), value, sk)

\* verify_input that takes the content() of what it is given in both signers
SignerVerifyInputStripping(sg, t, i, value, pk, bytes) ==
    VerifyInputSignature(t, i, SigningScript(sg), value, pk, SigContent(bytes))

\* InputSigner::verify_input.  p2wpk takes Into<InputSignatureRef> and
\* verifies its content(); p2wsh takes AsRef<[u8]> and verifies the bytes
\* it is given.
SignerVerifyInput(sg, t, i, value, pk, bytes) ==
    VerifyInputSignature(t, i, SigningScript(sg), value, pk,
                         IF sg.kind = "p2wpk" THEN SigContent(bytes) ELSE bytes)

(***************************************************************************)
(* The builder's callers: the inputs the model draws.                      *)
(***************************************************************************)
\* key k in turn, n times
KeyCycle(n) == [i \in 1..n |-> PublicKeyOf(1 + (i % NumKeys))]

LongLens == {16, 17, MaxLong - 1, MaxLong}

ShortKeyLists == {<<>>} \cup {<<k>> : k \in PubKeys}
                 \cup {<<k1, k2>> : k1 \in PubKeys, k2 \in PubKeys}

KeyLists == ShortKeyLists \cup {KeyCycle(n) : n \in LongLens}

Quorums == (0..MaxPushed) \cup LongLens

NoResult == [op |-> "none", input |-> <<>>, ok |-> FALSE, err |-> "", script |-> <<>>]

NoContent == [called |-> FALSE, panic |-> FALSE, quorum |-> 0, public_keys |-> <<>>]

\* no signer constructed, nothing signed
NoSigner == [kind |-> "none", public_key |-> NoKey, network |-> "none", script |-> <<>>]

NoSig == [bytes |-> <<>>, sk |-> 0, index |-> 0, amount |-> 0]

\* the record of a signer call; the fields a call does not have keep these
Ret(op, ok, err) ==
    [op |-> op, ok |-> ok, err |-> err, pk |-> NoKey, value |-> Amount(0),
     flip |-> 0, whole |-> FALSE, index |-> 0, hash |-> 0, before |-> <<>>]

\* no signature value made, no script converted
NoSigVal ==
    [op |-> "none", input |-> <<>>, type |-> "", ok |-> FALSE, err |-> "",
     bytes |-> <<>>]

NoHex ==
    [op |-> "none", of |-> <<>>, text |-> <<>>, ok |-> FALSE, err |-> "",
     script |-> <<>>]

NoSigning ==
    /\ signer = NoSigner
    /\ tx = Tx0
    /\ target = 0
    /\ slot = 0
    /\ sig = NoSig
    /\ sigs = <<>>
    /\ ret = Ret("none", FALSE, "")
    /\ sigval = NoSigVal
    /\ hex = NoHex

Init ==
    /\ builder = [quorum |-> 0, public_keys |-> <<>>]
    /\ redeem = NoResult
    /\ content = NoContent
    /\ overflow_checks \in BOOLEAN
    /\ NoSigning

(***************************************************************************)
(* RedeemScriptBuilder                                                     *)
(***************************************************************************)
New ==
    /\ builder' = [quorum |-> 0, public_keys |-> <<>>]
    /\ redeem' = NoResult
    /\ content' = NoContent
    /\ UNCHANGED <<overflow_checks, svars, xvars>>

WithQuorum(q) ==
    /\ builder' = [quorum |-> q, public_keys |-> <<>>]
    /\ redeem' = NoResult
    /\ content' = NoContent
    /\ UNCHANGED <<overflow_checks, svars, xvars>>

WithPublicKeys(keys) ==
    /\ builder' = [quorum |-> Len(keys), public_keys |-> keys]
    /\ redeem' = NoResult
    /\ content' = NoContent
    /\ UNCHANGED <<overflow_checks, svars, xvars>>

PublicKey(k) ==
    /\ Len(builder.public_keys) < MaxPushed
    /\ builder' = [builder EXCEPT !.public_keys = Append(@, k)]
    /\ redeem' = NoResult
    /\ content' = NoContent
    /\ UNCHANGED <<overflow_checks, svars, xvars>>

Quorum(q) ==
    /\ builder' = [builder EXCEPT !.quorum = q]
    /\ redeem' = NoResult
    /\ content' = NoContent
    /\ UNCHANGED <<overflow_checks, svars, xvars>>

\* to_script that takes the builder by value and leaves a new one
ToScriptConsuming ==
    /\ redeem' = [op |-> "to_script", input |-> <<>>] @@ ToScriptResult(builder)
    /\ builder' = [quorum |-> 0, public_keys |-> <<>>]
    /\ content' = NoContent
    /\ UNCHANGED <<overflow_checks, svars, xvars>>

\* builder.to_script()
ToScript ==
    /\ redeem' = [op |-> "to_script", input |-> <<>>] @@ ToScriptResult(builder)
    /\ content' = NoContent
    /\ UNCHANGED <<builder, overflow_checks, svars, xvars>>

\* RedeemScript::content on the instance the last call returned
Content ==
    /\ redeem.ok
    /\ content' = ContentResult(redeem.script)
    /\ UNCHANGED <<builder, redeem, overflow_checks, svars, xvars>>

Next ==
    \/ New
    \/ \E q \in Quorums : WithQuorum(q)
    \/ \E keys \in KeyLists : WithPublicKeys(keys)
    \/ \E k \in PubKeys : PublicKey(k)
    \/ \E q \in Quorums : Quorum(q)
    \/ ToScript
    \/ Content

Spec == Init /\ [][Next]_vars

(***************************************************************************)
(* The parser's callers: scripts from untrusted sources.  A script is a    *)
(* head, a run of key-position elements, a count, an end and a trailer,    *)
(* each possibly empty or malformed.                                       *)
(***************************************************************************)
Heads == {<<>>, <<0>>, PushInt(1), PushInt(2), <<1, 2>>, <<OP_RETURN>>}

KeyElems ==
    {PushSlice(Serialize(k)) : k \in PubKeys}
    \cup {PushSlice(SerializeUncompressed(PublicKeyOf(1))),
          PushSlice(<<5>> \o Zeros(32)),
          PushSlice(Zeros(32))}

RECURSIVE KeyRuns(_)
KeyRuns(n) ==
    IF n = 0 THEN {<<>>}
    ELSE LET r == KeyRuns(n - 1) IN r \cup {x \o e : x \in r, e \in KeyElems}

Counts == {<<>>, PushInt(1), PushInt(2), <<1, 1>>, <<1, 0>>, <<OP_RETURN>>}

Ends == {<<>>, <<OP_CHECKMULTISIG>>, <<OP_RETURN>>}

Trailers == {<<>>, <<OP_RETURN>>, <<5, 1>>}

Scripts ==
    {h \o ks \o c \o e \o t :
        h \in Heads, ks \in KeyRuns(MaxParseKeys), c \in Counts, e \in Ends,
        t \in Trailers}

(***************************************************************************)
(* RedeemScript::from_script                                               *)
(***************************************************************************)
FromScript ==
    /\ redeem.op = "none"
    /\ \E s \in Scripts :
          redeem' = [op |-> "from_script", input |-> s] @@ FromScriptResult(s)
    /\ content' = NoContent
    /\ UNCHANGED <<builder, overflow_checks, svars, xvars>>

\* the caller drops the instance (or the error) it holds
Discard ==
    /\ redeem.op # "none"
    /\ redeem' = NoResult
    /\ content' = NoContent
    /\ UNCHANGED <<builder, overflow_checks, svars, xvars>>

NextParse ==
    \/ FromScript
    \/ Content
    \/ Discard

SpecParse == Init /\ [][NextParse]_vars

(***************************************************************************)
(* The signers' callers.                                                   *)
(***************************************************************************)
Networks == {"Bitcoin", "Testnet"}

\* the redeem scripts the P2WSH signers are constructed with: two of all
\* the keys in the order of their secret keys, one of them in reverse order
KeysUp == [i \in 1..NumKeys |-> PublicKeyOf(i)]

KeysDown == [i \in 1..NumKeys |-> PublicKeyOf(NumKeys + 1 - i)]

SignerScripts ==
    {ToScriptResult([quorum |-> 2, public_keys |-> KeysUp]).script,
     ToScriptResult([quorum |-> 1, public_keys |-> KeysDown]).script}

\* p2wpk::InputSigner::new and p2wsh::InputSigner::new
WpkSigners ==
    {[kind |-> "p2wpk", public_key |-> pk, network |-> n, script |-> <<>>] :
        pk \in PubKeys, n \in Networks}

WshSigners ==
    {[kind |-> "p2wsh", public_key |-> NoKey, network |-> "none", script |-> s] :
        s \in SignerScripts}

\* the value of the output an input of Tx0 spends
TrueAmount(i) == PrevOutputs[InputAt(Tx0, i).prev_index + 1]

\* the value sources a caller passes: right and wrong amounts, the previous
\* transaction, its output, and another transaction, which has one output
Values ==
    {Amount(PrevOutputs[1]), Amount(PrevOutputs[2]), PrevTx(PrevOutputs),
     PrevOut(PrevOutputs[2]), ForeignTx(<<PrevOutputs[1]>>)}

\* a byte string with the byte at position p changed (p = 0: unchanged)
Flip(bytes, p) ==
    [k \in 1..Len(bytes) |-> IF k = p THEN (bytes[k] + 1) % 256 ELSE bytes[k]]

InitSign ==
    /\ builder = [quorum |-> 0, public_keys |-> <<>>]
    /\ redeem = NoResult
    /\ content = NoContent
    /\ overflow_checks = FALSE
    /\ signer \in WpkSigners \cup WshSigners
    /\ tx = Tx0
    /\ target \in 0..(Len(Tx0.input) - 1)
    /\ slot = target
    /\ sig = NoSig
    /\ sigs = <<>>
    /\ ret = Ret("none", FALSE, "")
    /\ sigval = NoSigVal
    /\ hex = NoHex

\* the caller may finalize another input than the one it signs
InitSpend ==
    /\ builder = [quorum |-> 0, public_keys |-> <<>>]
    /\ redeem = NoResult
    /\ content = NoContent
    /\ overflow_checks = FALSE
    /\ signer \in WpkSigners \cup WshSigners
    /\ tx = Tx0
    /\ target \in 0..(Len(Tx0.input) - 1)
    /\ slot \in 0..(Len(Tx0.input) - 1)
    /\ sig = NoSig
    /\ sigs = <<>>
    /\ ret = Ret("none", FALSE, "")
    /\ sigval = NoSigVal
    /\ hex = NoHex

\* TxInRef::new(&tx, i): asserts the index is in range
TxInRefNew(i) ==
    /\ target' = IF TxInRefNewResult(tx, i).ok THEN TxInRefNewResult(tx, i).index
                  ELSE target
    /\ ret' = [Ret("TxInRef::new", TxInRefNewResult(tx, i).ok,
                   TxInRefNewResult(tx, i).err) EXCEPT !.index = i]
    /\ UNCHANGED <<cvars, xvars, signer, tx, slot, sig, sigs>>

\* signer.signature_hash(TxInRef::new(&tx, target), value)
CallSignatureHash(value) ==
    /\ ret' = IF SignatureHashPanics(tx, target, value)
              THEN [Ret("signature_hash", FALSE, "panic") EXCEPT !.value = value]
              ELSE [Ret("signature_hash", TRUE, "") EXCEPT
                       !.value = value,
                       !.hash = SignatureHash(tx, target, SigningScript(signer), value)]
    /\ UNCHANGED <<cvars, xvars, signer, tx, target, slot, sig, sigs>>

\* signer.sign_input(TxInRef::new(&tx, target), value, &sk)
SignInput(value, sk) ==
    \E r \in {SignerSignInput(signer, tx, target, value, sk)} :
        /\ sig' = IF r.ok
                  THEN [bytes |-> r.sig, sk |-> sk, index |-> target,
                        amount |-> AmountOf(value, tx, target).amount]
                  ELSE sig
        /\ ret' = [Ret("sign_input", r.ok, r.err) EXCEPT !.value = value]
        /\ UNCHANGED <<cvars, xvars, signer, tx, target, slot, sigs>>

\* signer.verify_input(TxInRef::new(&tx, target), value, &pk, signature) on
\* the signature held, with one byte changed when flip > 0.  The P2WPK
\* signer is handed the InputSignature; the P2WSH signer its content(), or
\* (whole) all its bytes.
VerifyInput(pk, value, flip, whole) ==
    /\ sig # NoSig
    /\ flip \in 0..Len(sig.bytes)
    /\ whole => signer.kind = "p2wsh"
    /\ LET changed == Flip(sig.bytes, flip)
           bytes == IF signer.kind = "p2wsh" /\ ~whole THEN SigContent(changed)
                    ELSE changed
       IN \E r \in {SignerVerifyInput(signer, tx, target, value, pk, bytes)} :
              ret' = [Ret("verify_input", r.ok, r.err) EXCEPT
                         !.pk = pk, !.value = value, !.flip = flip, !.whole = whole]
    /\ UNCHANGED <<cvars, xvars, signer, tx, target, slot, sig, sigs>>

\* the caller of the P2WSH signer puts the signature aside for spend_input
Collect ==
    /\ signer.kind = "p2wsh"
    /\ sig # NoSig
    /\ Len(sigs) < MaxSigs
    /\ sigs' = Append(sigs, sig)
    /\ ret' = Ret("collect", TRUE, "")
    /\ UNCHANGED <<cvars, xvars, signer, tx, target, slot, sig>>

\* the bytes of the collected signatures
SigBytes(ss) == [k \in 1..Len(ss) |-> ss[k].bytes]

\* the witness a signer makes of the signatures its caller holds
WitnessData(sg, s, ss) ==
    IF sg.kind = "p2wpk" THEN WpkWitnessData(sg, s.bytes)
    ELSE WshWitnessData(sg, SigBytes(ss))

\* spend_input that pushes onto the witness the input has
SpendInputAppending ==
    /\ signer.kind = "p2wpk" => sig # NoSig
    /\ tx' = [tx EXCEPT !.input[slot + 1].witness = @ \o WitnessData(signer, sig, sigs)]
    /\ ret' = [Ret("spend_input", TRUE, "") EXCEPT !.before = InputAt(tx, slot).witness]
    /\ UNCHANGED <<cvars, xvars, signer, target, slot, sig, sigs>>

\* spend_input that also sets the input's sequence number to zero
SpendInputTouchingSequence ==
    /\ signer.kind = "p2wpk" => sig # NoSig
    /\ tx' = [tx EXCEPT !.input[slot + 1].witness = WitnessData(signer, sig, sigs),
                        !.input[slot + 1].sequence = 0]
    /\ ret' = [Ret("spend_input", TRUE, "") EXCEPT !.before = InputAt(tx, slot).witness]
    /\ UNCHANGED <<cvars, xvars, signer, target, slot, sig, sigs>>

\* P2WSH spend_input that wants as many signatures as the quorum
SpendInputChecked ==
    /\ signer.kind = "p2wpk" => sig # NoSig
    /\ \E enough \in {signer.kind = "p2wsh" => Len(sigs) = Parse(signer.script).quorum} :
          /\ tx' = IF enough
                   THEN [tx EXCEPT !.input[slot + 1].witness = WitnessData(signer, sig, sigs)]
                   ELSE tx
          /\ ret' = [Ret("spend_input", enough, IF enough THEN "" ELSE "IncorrectQuorum")
                        EXCEPT !.before = InputAt(tx, slot).witness]
    /\ UNCHANGED <<cvars, xvars, signer, target, slot, sig, sigs>>

\* signer.spend_input(&mut tx.input[slot], ...): P2WPK with a copy of the
\* signature held, P2WSH with copies of the signatures collected; before is
\* the witness the input had when it was handed over
SpendInput ==
    /\ signer.kind = "p2wpk" => sig # NoSig
    /\ tx' = [tx EXCEPT !.input[slot + 1].witness = WitnessData(signer, sig, sigs)]
    /\ ret' = [Ret("spend_input", TRUE, "") EXCEPT !.before = InputAt(tx, slot).witness]
    /\ UNCHANGED <<cvars, xvars, signer, target, slot, sig, sigs>>

\* signing and verifying an input
NextSign ==
    \/ \E i \in 0..Len(Tx0.input) : TxInRefNew(i)
    \/ \E value \in Values, sk \in SecretKeys : SignInput(value, sk)
    \/ \E pk \in PubKeys, value \in Values : VerifyInput(pk, value, 0, FALSE)
    \/ \E flip \in 1..MaxSigLen :
           VerifyInput(PublicKeyOf(sig.sk), PrevTx(PrevOutputs), flip, FALSE)
    \/ \E pk \in PubKeys : VerifyInput(pk, PrevTx(PrevOutputs), 0, TRUE)

SpecSign == InitSign /\ [][NextSign]_vars

\* the three calls that resolve an amount, with every value source
NextValue ==
    \/ \E value \in Values : CallSignatureHash(value)
    \/ \E value \in Values, sk \in SecretKeys : SignInput(value, sk)
    \/ \E pk \in PubKeys, value \in Values : VerifyInput(pk, value, 0, FALSE)

SpecValue == InitSign /\ [][NextValue]_vars

\* signing an input with the previous transaction at hand, and spending it
NextSpend ==
    \/ \E sk \in SecretKeys : SignInput(PrevTx(PrevOutputs), sk)
    \/ Collect
    \/ SpendInput

SpecSpend == InitSpend /\ [][NextSpend]_vars

\* digests, signatures and verifications before and after inputs are spent
NextUse ==
    \/ CallSignatureHash(PrevTx(PrevOutputs))
    \/ \E sk \in SecretKeys : SignInput(PrevTx(PrevOutputs), sk)
    \/ \E pk \in PubKeys : VerifyInput(pk, PrevTx(PrevOutputs), 0, FALSE)
    \/ Collect
    \/ SpendInput

SpecUse == InitSpend /\ [][NextUse]_vars

(***************************************************************************)
(* Display and FromStr for RedeemScript                                    *)
(***************************************************************************)
\* the texts a caller hands to from_str: hex of either case, a text cut
\* short, a text with a character that is no digit, the empty text
HexTexts ==
    {<<>>}
        \cup {ToHex(s) : s \in SignerScripts}
        \cup {HexWith(UpperDigits, s) : s \in SignerScripts}
        \cup {SubSeq(ToHex(s), 1, 2 * Len(s) - 1) : s \in SignerScripts}
        \cup {<<"g">> \o SubSeq(ToHex(s), 2, 2 * Len(s)) : s \in SignerScripts}

\* script.to_string().parse::<RedeemScript>(), of the instance held
ToStringFromStr ==
    /\ redeem.ok
    /\ hex.op = "none"
    /\ hex' = [op |-> "to_string", of |-> redeem.script, text |-> ToHex(redeem.script)]
                  @@ FromStrResult(ToHex(redeem.script))
    /\ UNCHANGED <<cvars, svars, sigval>>

\* RedeemScript::from_str(text): the instance, if any, is the one held
FromStr(text) ==
    /\ redeem.op = "none"
    /\ hex.op = "none"
    /\ hex' = [op |-> "from_str", of |-> <<>>, text |-> text] @@ FromStrResult(text)
    /\ redeem' = [op |-> "from_str", input |-> HexDecode(text).bytes]
                     @@ FromStrResult(text)
    /\ content' = NoContent
    /\ UNCHANGED <<builder, overflow_checks, svars, sigval>>

NextHex ==
    \/ FromScript
    \/ ToStringFromStr
    \/ \E text \in HexTexts : FromStr(text)

SpecHex == Init /\ [][NextHex]_vars

(***************************************************************************)
(* The callers of the signature value (sign.rs).                           *)
(***************************************************************************)
\* DER signatures of the engine
DerSigs == {SerializeDer(EcdsaSign(d, sk)) : d \in {0, 5}, sk \in SecretKeys}

\* what a caller hands to InputSignature::new: signatures, nothing, bytes
\* that are no signature ("abacab"), a signature cut short, and one with a
\* byte after it
Contents ==
    DerSigs \cup {<<>>, <<1, 2, 3>>, <<97, 98, 97, 99, 97, 98>>}
        \cup {SubSeq(d, 1, Len(d) - 1) : d \in DerSigs}
        \cup {Append(d, 0) : d \in DerSigs}

\* the last bytes of what a caller hands to from_bytes
TypeBytes == {0, 1, 2, 3, 4, 97, 129, 130, 131, 255}

\* InputSignature::new(b, t)
SigNew(b, t) ==
    /\ sigval' = [op |-> "new", input |-> b, type |-> t, ok |-> TRUE, err |-> "",
                  bytes |-> InputSignatureNew(b, AsU8(t))]
    /\ UNCHANGED <<cvars, svars, hex>>

\* InputSignatureRef::from_bytes(&ctx, bytes)
FromBytes(bytes) ==
    /\ sigval' = [op |-> "from_bytes", input |-> bytes, type |-> ""]
                     @@ FromBytesResult(bytes)
    /\ UNCHANGED <<cvars, svars, hex>>

\* InputSignatureRef::from(&signature), of the InputSignature just made
RefFrom ==
    /\ sigval.op = "new"
    /\ sigval' = [sigval EXCEPT !.op = "from"]
    /\ UNCHANGED <<cvars, svars, hex>>

NextSig ==
    \/ \E b \in Contents, t \in SigHashTypes : SigNew(b, t)
    \/ \E b \in Contents, n \in TypeBytes : FromBytes(Append(b, n))
    \/ FromBytes(<<>>)
    \/ RefFrom

SpecSig == Init /\ [][NextSig]_vars

(***************************************************************************)
(* The check a validating node makes of a P2WSH multisig witness           *)
(* (OP_CHECKMULTISIG): the signatures are matched one after another        *)
(* against the keys in script order; a key that does not match the         *)
(* signature at hand is skipped and never tried again.                     *)
(***************************************************************************)
\* one signature against one key: the type byte selects the digest
CheckSig(t, j, script, bytes, pk) ==
    /\ Len(bytes) > 0
    /\ SigTypeByte(bytes) = SIGHASH_ALL
    /\ FromDer(SigContent(bytes)).ok
    /\ EcdsaVerify(SighashAll(t, j, script, TrueAmount(j)),
                   FromDer(SigContent(bytes)).rs, pk)

RECURSIVE MatchSigs(_, _, _, _, _, _, _)
MatchSigs(t, j, script, ss, keys, i, k) ==
    IF i > Len(ss) THEN TRUE
    ELSE IF Len(ss) - i > Len(keys) - k THEN FALSE
    ELSE IF CheckSig(t, j, script, ss[i], keys[k])
    THEN MatchSigs(t, j, script, ss, keys, i + 1, k + 1)
    ELSE MatchSigs(t, j, script, ss, keys, i, k + 1)

\* the witness of input j: the placeholder, quorum signatures, the script
CheckMultisig(t, j) ==
    LET w == InputAt(t, j).witness IN
    /\ Len(w) >= 2
    /\ w[1] = <<>>
    /\ LET script == w[Len(w)]
           c == Parse(script)
           ss == SubSeq(w, 2, Len(w) - 1)
       IN /\ c.ok
          /\ Len(ss) = c.quorum
          /\ MatchSigs(t, j, script, ss, c.public_keys, 1, 1)

(***************************************************************************)
(* Properties of the script codec.                                         *)
(***************************************************************************)
\* the preconditions of to_script hold of the builder
ValidBuilder ==
    /\ 1 <= builder.quorum
    /\ builder.quorum <= Len(builder.public_keys)

\* C1: for every quorum q and key list of length n with 1 <= q <= n, whatever
\* n is, to_script succeeds and parse of the script it produced returns
\* quorum q and the same public keys in the same order.
C1_RoundTrip ==
    (redeem.op = "to_script" /\ ValidBuilder) =>
        /\ redeem.ok
        /\ Parse(redeem.script).ok
        /\ Parse(redeem.script).quorum = builder.quorum
        /\ Parse(redeem.script).public_keys = builder.public_keys

\* C2: to_script reports the first failing precondition in the order
\* quorum = 0 (NoQuorum, whatever the number of keys), no keys
\* (NotEnoughPublicKeys), quorum > number of keys (IncorrectQuorum), and
\* succeeds otherwise.
C2_ErrorOrder ==
    redeem.op = "to_script" =>
        LET q == builder.quorum
            n == Len(builder.public_keys)
        IN
        IF q = 0 THEN ~redeem.ok /\ redeem.err = "NoQuorum"
        ELSE IF n = 0 THEN ~redeem.ok /\ redeem.err = "NotEnoughPublicKeys"
        ELSE IF q > n THEN ~redeem.ok /\ redeem.err = "IncorrectQuorum"
        ELSE redeem.ok

\* to_script has answered NoQuorum to a builder that holds keys
C2_Witness ==
    /\ redeem.op = "to_script"
    /\ builder.quorum = 0
    /\ Len(builder.public_keys) > 0
    /\ redeem.err = "NoQuorum"

\* C3: every RedeemScript instance, from to_script or from from_script,
\* parses, so content() never fails on an instance, and from_script on a
\* script that does not parse yields no instance.
C3_InstancesParse ==
    /\ redeem.ok => Parse(redeem.script).ok
    /\ content.called => ~content.panic
    /\ (redeem.op = "from_script" /\ ~Parse(redeem.input).ok) => ~redeem.ok

\* s continues a well-formed multisig script: a proper prefix of s, ending
\* with the OP_CHECKMULTISIG that closes it, parses to a quorum of 1..n of
\* its n keys
HasTrailingElements(s) ==
    \E j \in 1..(Len(s) - 1) :
        /\ s[j] = OP_CHECKMULTISIG
        /\ LET c == Parse(SubSeq(s, 1, j)) IN
           c.ok /\ 1 <= c.quorum /\ c.quorum <= Len(c.public_keys)

\* C4: parse consumes the entire script: a script with any element after the
\* OP_CHECKMULTISIG that closes a well-formed multisig layout is rejected.
C4_ConsumesAll ==
    (redeem.op = "from_script" /\ HasTrailingElements(redeem.input)) => ~redeem.ok

\* C5: every content returned by parse, and by content(), has
\* 1 <= quorum <= number of public keys.
C5_QuorumRange ==
    /\ (redeem.op = "from_script" /\ redeem.ok) =>
            LET c == Parse(redeem.script) IN
            1 <= c.quorum /\ c.quorum <= Len(c.public_keys)
    /\ (content.called /\ ~content.panic) =>
            1 <= content.quorum /\ content.quorum <= Len(content.public_keys)

(***************************************************************************)
(* Properties of the signers.                                              *)
(***************************************************************************)
\* the witness spend_input left in the input it was handed
SpentWitness == InputAt(tx, slot).witness

\* C6: the P2WSH spend_input leaves the witness [empty byte string,
\* signature_1, ..., signature_k, redeem script bytes]: the k signatures,
\* each with its type byte, in the order supplied, none dropped or repeated.
C6_WshWitness ==
    (ret.op = "spend_input" /\ signer.kind = "p2wsh") =>
        /\ Len(SpentWitness) = Len(sigs) + 2
        /\ SpentWitness[1] = <<>>
        /\ SpentWitness[Len(SpentWitness)] = signer.script
        /\ \A k \in 1..Len(sigs) :
              /\ SpentWitness[k + 1] = sigs[k].bytes
              /\ SigTypeByte(SpentWitness[k + 1]) = SIGHASH_ALL
              /\ FromDer(SigContent(SpentWitness[k + 1])).ok

C6_Witness ==
    /\ ret.op = "spend_input"
    /\ signer.kind = "p2wsh"
    /\ Len(sigs) = 2
    /\ sigs[1] # sigs[2]
    /\ Len(SpentWitness) = 4

\* C7: the P2WPK spend_input leaves the two-element witness [the signature
\* with its type byte, the compressed serialization of the signer's public
\* key], and never fails.
C7_WpkWitness ==
    (ret.op = "spend_input" /\ signer.kind = "p2wpk") =>
        /\ ret.ok
        /\ Len(SpentWitness) = 2
        /\ SpentWitness[1] = sig.bytes
        /\ SigTypeByte(SpentWitness[1]) = SIGHASH_ALL
        /\ SpentWitness[2] = Serialize(signer.public_key)
        /\ FromSlice(SpentWitness[2]) = [ok |-> TRUE, key |-> signer.public_key]

C7_Witness ==
    /\ ret.op = "spend_input"
    /\ signer.kind = "p2wpk"
    /\ Len(SpentWitness) = 2
    /\ Len(SpentWitness[1]) = MaxSigLen

\* the signature held was made for the input and the amount a verify_input
\* call was given
SameInputAndAmount ==
    /\ sig # NoSig
    /\ sig.index = target
    /\ ~AmountOf(ret.value, tx, target).panic
    /\ AmountOf(ret.value, tx, target).amount = sig.amount

\* C8: for both signers, sign_input with a value source that resolves
\* returns a signature whose type is SIGHASH_ALL; verify_input of that
\* signature (as the signer takes it: the signature for P2WPK, its content
\* for P2WSH) for the same input and amount succeeds with the public key of
\* the signing key and fails with any other.
C8_SignVerify ==
    /\ (ret.op = "sign_input" /\ ~AmountOf(ret.value, tx, target).panic) =>
          /\ ret.ok
          /\ sig.index = target
          /\ SigTypeByte(sig.bytes) = SIGHASH_ALL
    /\ (ret.op = "verify_input" /\ ret.flip = 0 /\ ~ret.whole /\ SameInputAndAmount) =>
          (ret.ok <=> ret.pk = PublicKeyOf(sig.sk))

C8_Witness ==
    /\ ret.op = "verify_input"
    /\ signer.kind = "p2wsh"
    /\ ret.flip = 0
    /\ ~ret.whole
    /\ SameInputAndAmount
    /\ ret.pk = PublicKeyOf(sig.sk)
    /\ ret.ok

\* C9: the P2WPK verify_input succeeds on the unchanged signature and fails
\* when any one byte of the InputSignature, the last included, is changed.
C9_AnyByteChange ==
    (/\ ret.op = "verify_input"
     /\ signer.kind = "p2wpk"
     /\ SameInputAndAmount
     /\ ret.pk = PublicKeyOf(sig.sk)) =>
        (ret.ok <=> ret.flip = 0)

\* the position in the redeem script of the key a signature was made with
KeyIndex(s) ==
    LET keys == Parse(signer.script).public_keys IN
    IF \E k \in 1..Len(keys) : keys[k] = PublicKeyOf(s.sk)
    THEN CHOOSE k \in 1..Len(keys) : keys[k] = PublicKeyOf(s.sk)
    ELSE 0

\* quorum signatures of distinct script keys, each valid for the spent
\* input, were handed to the P2WSH spend_input
QuorumOfValidSignatures ==
    /\ ret.op = "spend_input"
    /\ signer.kind = "p2wsh"
    /\ Len(sigs) = Parse(signer.script).quorum
    /\ \A k \in 1..Len(sigs) :
          /\ KeyIndex(sigs[k]) > 0
          /\ SignerVerifyInput(signer, tx, slot, PrevTx(PrevOutputs),
                               PublicKeyOf(sigs[k].sk), SigContent(sigs[k].bytes)).ok
    /\ \A k, l \in 1..Len(sigs) : k # l => sigs[k].sk # sigs[l].sk

\* the signatures are in the order of their keys in the redeem script
InScriptOrder ==
    \A k, l \in 1..Len(sigs) : k < l => KeyIndex(sigs[k]) < KeyIndex(sigs[l])

\* C10: a witness the P2WSH spend_input assembles from quorum valid
\* signatures of distinct script keys passes the multisig check when the
\* signatures were supplied in the order of their keys in the redeem
\* script, and fails it in any other order.
C10_ScriptOrder ==
    QuorumOfValidSignatures => (CheckMultisig(tx, slot) <=> InScriptOrder)

C10_Witness ==
    /\ QuorumOfValidSignatures
    /\ ~InScriptOrder
    /\ ~CheckMultisig(tx, slot)

(***************************************************************************)
(* Properties of the signature value.                                      *)
(***************************************************************************)
\* C11: for every byte string b and sighash type t, s = InputSignature::new(b, t)
\* has content() = b and sighash_type() = t, and its bytes are b followed
\* by the one byte that encodes t.
C11_NewAccessors ==
    sigval.op = "new" =>
        /\ SigContent(sigval.bytes) = sigval.input
        /\ SighashTypeOf(sigval.bytes) = sigval.type
        /\ Len(sigval.bytes) = Len(sigval.input) + 1
        /\ SubSeq(sigval.bytes, 1, Len(sigval.input)) = sigval.input
        /\ sigval.bytes[Len(sigval.bytes)] = AsU8(sigval.type)

C11_Witness ==
    /\ sigval.op = "new"
    /\ sigval.type = "SinglePlusAnyoneCanPay"
    /\ sigval.input \in DerSigs
    /\ SigContent(sigval.bytes) = sigval.input

\* C12: every InputSignatureRef, made by from_bytes or converted from a
\* borrowed InputSignature, has a content() that is a well-formed DER
\* signature.
C12_RefIsDer ==
    (sigval.op \in {"from_bytes", "from"} /\ sigval.ok) =>
        FromDer(SigContent(sigval.bytes)).ok

\* C13: from_bytes fails, with no instance, on the empty byte string and
\* when the bytes before the last are no DER signature; otherwise it
\* succeeds and the instance is the given bytes: content() is all but the
\* last byte, sighash_type() the type the last byte decodes to.
C13_FromBytes ==
    sigval.op = "from_bytes" =>
        LET b == sigval.input IN
        /\ sigval.ok <=> (Len(b) > 0 /\ FromDer(SubSeq(b, 1, Len(b) - 1)).ok)
        /\ ~sigval.ok => (sigval.bytes = <<>> /\ sigval.err # "")
        /\ sigval.ok =>
              /\ sigval.bytes = b
              /\ SigContent(sigval.bytes) = SubSeq(b, 1, Len(b) - 1)
              /\ SighashTypeOf(sigval.bytes) = SigHashFromU32(b[Len(b)])
              /\ b[Len(b)] \in {AsU8(t) : t \in SigHashTypes} =>
                     AsU8(SighashTypeOf(sigval.bytes)) = b[Len(b)]

C13_Witness ==
    /\ sigval.op = "from_bytes"
    /\ sigval.ok
    /\ sigval.input[Len(sigval.input)] = 130
    /\ SighashTypeOf(sigval.bytes) = "NonePlusAnyoneCanPay"

(***************************************************************************)
(* Properties of the text form and of the parser.                          *)
(***************************************************************************)
\* C14: for every script s the parser accepts, from_str(s.to_string())
\* succeeds and equals s, and to_string is the lower-case hexadecimal text
\* of the script's bytes, two digits for a byte.
C14_HexRoundTrip ==
    hex.op = "to_string" =>
        /\ hex.ok
        /\ hex.script = hex.of
        /\ Len(hex.text) = 2 * Len(hex.of)
        /\ \A k \in 1..Len(hex.of) :
              /\ hex.text[2 * k - 1] = LowerDigits[(hex.of[k] \div 16) + 1]
              /\ hex.text[2 * k] = LowerDigits[(hex.of[k] % 16) + 1]

C14_Witness ==
    /\ hex.op = "to_string"
    /\ hex.ok
    /\ hex.script = hex.of
    /\ \E k \in 1..Len(hex.of) : hex.of[k] = OP_CHECKMULTISIG /\ hex.text[2 * k - 1] = "a"

\* C15: the parser accepts only the canonical layout: for every script s
\* it accepts with result (q, keys), the builder given q and the keys in
\* order succeeds and builds a script byte-identical to s.
C15_CanonicalOnly ==
    (redeem.op = "from_script" /\ redeem.ok) =>
        LET c == Parse(redeem.input)
            r == ToScriptResult([quorum |-> c.quorum, public_keys |-> c.public_keys])
        IN r.ok /\ r.script = redeem.input

\* C16: whenever the parser rejects a script the error is NotStandard or,
\* for a key count that differs from the keys collected, NotEnoughPublicKeys;
\* no other error comes out of it, the empty script and a first element
\* that is no integer included.
C16_ErrorKinds ==
    (redeem.op = "from_script" /\ ~redeem.ok) =>
        redeem.err \in {"NotStandard", "NotEnoughPublicKeys"}

(***************************************************************************)
(* Properties of the signers' arguments.                                   *)
(***************************************************************************)
\* C17: the P2WSH verify_input, given the signature value sign_input
\* returned (content and type byte), the same input and value and the
\* matching public key, verifies the content and succeeds, as the P2WPK
\* one does.
C17_WshTakesSignature ==
    (/\ ret.op = "verify_input"
     /\ signer.kind = "p2wsh"
     /\ ret.whole
     /\ ret.flip = 0
     /\ SameInputAndAmount
     /\ ret.pk = PublicKeyOf(sig.sk)) => ret.ok

\* C18: TxInRef::new(tx, i) aborts when i is not less than the number of
\* inputs; otherwise index() is i and input() is tx.input[i]; every TxInRef
\* there is has an index in range.
C18_TxInRefInRange ==
    /\ target < Len(tx.input)
    /\ ret.op = "TxInRef::new" =>
          /\ ret.ok <=> ret.index < Len(tx.input)
          /\ ~ret.ok => ret.err = "panic"
          /\ ret.ok => /\ target = ret.index
                       /\ InputAt(tx, target) = tx.input[ret.index + 1]

C18_Witness ==
    /\ ret.op = "TxInRef::new"
    /\ ret.index = Len(tx.input)
    /\ ~ret.ok

\* the value source has an output for the input (the other forms always do)
Resolves(value) ==
    value.form = "PrevTx" => InputAt(tx, target).prev_index < Len(value.outputs)

\* the amount the value source stands for
ExpectedAmount(value) ==
    IF value.form = "PrevTx"
    THEN value.outputs[InputAt(tx, target).prev_index + 1]
    ELSE value.amount

\* the bytes the last verify_input call was handed
PassedBytes ==
    IF signer.kind = "p2wsh" /\ ~ret.whole THEN SigContent(Flip(sig.bytes, ret.flip))
    ELSE Flip(sig.bytes, ret.flip)

\* C19: Amount(v) stands for v, PrevOut(o) for o.value, PrevTx(t) for the
\* value of t's output at the input's previous-output index; sign_input
\* and verify_input give with any form what they give with Amount of the
\* same amount.
C19_SameAmount ==
    /\ (ret.op = "sign_input" /\ Resolves(ret.value)) =>
          /\ ret.ok
          /\ sig.amount = ExpectedAmount(ret.value)
          /\ sig.bytes = SignerSignInput(signer, tx, target,
                                         Amount(ExpectedAmount(ret.value)), sig.sk).sig
    /\ (ret.op = "verify_input" /\ Resolves(ret.value)) =>
          ret.ok = SignerVerifyInput(signer, tx, target,
                                     Amount(ExpectedAmount(ret.value)), ret.pk,
                                     PassedBytes).ok

C19_Witness ==
    /\ ret.op = "verify_input"
    /\ ret.value = PrevTx(PrevOutputs)
    /\ target = 0
    /\ sig.index = 0
    /\ sig.amount = PrevOutputs[2]
    /\ ret.flip = 0
    /\ ret.ok

(***************************************************************************)
(* Properties of the parser's rejections.                                  *)
(***************************************************************************)
\* after at most n public keys, the element at i is a push of more than
\* one byte that is no public key
RECURSIVE BadKeyFrom(_, _, _)
BadKeyFrom(s, i, n) ==
    LET e == InstrAt(s, i) IN
    /\ e.kind = "push"
    /\ Len(e.data) > 1
    /\ IF FromSlice(e.data).ok THEN n > 0 /\ BadKeyFrom(s, e.next, n - 1) ELSE TRUE

\* the script starts with a number the parser reads as the quorum, then
\* public keys, then a push of more than one byte that is no public key
HasBadKey(s) ==
    /\ ReadUsize(InstrAt(s, 1)).some
    /\ BadKeyFrom(s, InstrAt(s, 1).next, MaxParseKeys + 1)

\* the script of the repository's test: a witness version and a 32-byte push
VersionAndDigest == <<0>> \o PushSlice(Zeros(32))

\* C20: a witness-version push followed by one 32-byte push, and any script
\* whose element in a key position is a push of more than one byte that is
\* no public key, is rejected with NotStandard.
C20_BadKeyNotStandard ==
    /\ (redeem.op = "from_script" /\ redeem.input = VersionAndDigest) =>
          (~redeem.ok /\ redeem.err = "NotStandard")
    /\ (redeem.op = "from_script" /\ HasBadKey(redeem.input)) =>
          (~redeem.ok /\ redeem.err = "NotStandard")

C20_Witness ==
    /\ redeem.op = "from_script"
    /\ redeem.input = VersionAndDigest
    /\ HasBadKey(redeem.input)
    /\ redeem.err = "NotStandard"

(***************************************************************************)
(* Properties of the signers' state.                                       *)
(***************************************************************************)
\* the signer held, constructed for network n instead
OnNetwork(n) == [signer EXCEPT !.network = n]

\* C21: a P2WPK signer of the same public key on another network computes
\* the same signature_hash, makes the same signature and gives the same
\* answer to verify_input, for every txin and value.
C21_NetworkIrrelevant ==
    signer.kind = "p2wpk" =>
        \A n \in Networks :
            /\ ret.op \in {"sign_input", "verify_input"} =>
                  /\ SignatureHashPanics(tx, target, ret.value) = ~(ret.ok \/ ret.err # "panic")
                  /\ ~SignatureHashPanics(tx, target, ret.value) =>
                        SignatureHash(tx, target, SigningScript(OnNetwork(n)), ret.value)
                            = SignatureHash(tx, target, SigningScript(signer), ret.value)
            /\ (ret.op = "sign_input" /\ ret.ok) =>
                  SignerSignInput(OnNetwork(n), tx, target, ret.value, sig.sk)
                      = [ok |-> TRUE, err |-> "", sig |-> sig.bytes]
            /\ ret.op = "verify_input" =>
                  SignerVerifyInput(OnNetwork(n), tx, target, ret.value, ret.pk, PassedBytes)
                      = [ok |-> ret.ok, err |-> ret.err]

C21_Witness ==
    /\ signer.kind = "p2wpk"
    /\ signer.network = "Testnet"
    /\ ret.op = "verify_input"
    /\ ret.ok
    /\ SignerVerifyInput(OnNetwork("Bitcoin"), tx, target, ret.value, ret.pk, PassedBytes).ok

(***************************************************************************)
(* Properties of the builder's steps.                                      *)
(***************************************************************************)
\* the accumulation steps can be taken, with every argument
StepsEnabled ==
    /\ ENABLED New
    /\ \A q \in Quorums : ENABLED WithQuorum(q) /\ ENABLED Quorum(q)
    /\ \A keys \in KeyLists : ENABLED WithPublicKeys(keys)
    /\ \A k \in PubKeys : Len(builder.public_keys) < MaxPushed => ENABLED PublicKey(k)
    /\ ENABLED ToScript

\* a step that changes the builder returns no result, and is a constructor,
\* sets the quorum alone, or adds one key at the end
AccumulationStep ==
    builder' # builder =>
        /\ redeem' = NoResult
        /\ \/ builder'.public_keys = <<>>
           \/ builder' \in {[quorum |-> Len(keys), public_keys |-> keys] : keys \in KeyLists}
           \/ builder'.public_keys = builder.public_keys
           \/ /\ builder'.quorum = builder.quorum
              /\ \E k \in PubKeys : builder'.public_keys = Append(builder.public_keys, k)

\* a step that returns a result is to_script: the result is made of the
\* quorum and the keys the builder holds, the builder is left as it was,
\* and a second call returns what the first did
TerminalStep ==
    redeem'.op = "to_script" =>
        /\ builder' = builder
        /\ [ok |-> redeem'.ok, err |-> redeem'.err, script |-> redeem'.script]
               = ToScriptResult([quorum |-> builder.quorum,
                                 public_keys |-> builder.public_keys])
        /\ redeem.op = "to_script" => redeem' = redeem

\* C22: the accumulation steps of RedeemScriptBuilder cannot fail and only
\* to_script returns a result; the result depends only on the quorum last
\* set and the keys in insertion order; to_script leaves the builder
\* unchanged, so that calling it again gives the same result.
C22_BuilderSteps ==
    /\ []StepsEnabled
    /\ [][AccumulationStep /\ TerminalStep]_vars

C22_Witness ==
    /\ redeem.op = "to_script"
    /\ redeem.err = "IncorrectQuorum"
    /\ Len(builder.public_keys) = 2
    /\ builder.public_keys[1] # builder.public_keys[2]
    /\ builder.quorum = 3

(***************************************************************************)
(* Properties of spend_input and of the calls around it.                   *)
(***************************************************************************)
\* transaction t with the witness of input i (0-based) emptied
WithoutWitness(t, i) == [t EXCEPT !.input[i + 1].witness = <<>>]

\* C23: signature_hash, sign_input and verify_input leave the transaction
\* and the signer as they were; spend_input changes the witness of the
\* input it is handed and nothing else.
C23_OnlySpendMutates ==
    [][/\ signer' = signer
       /\ ret'.op \in {"signature_hash", "sign_input", "verify_input", "collect"} =>
             tx' = tx
       /\ ret'.op = "spend_input" =>
             /\ WithoutWitness(tx', slot) = WithoutWitness(tx, slot)
             /\ InputAt(tx', slot).prev_hash = InputAt(tx, slot).prev_hash
             /\ InputAt(tx', slot).prev_index = InputAt(tx, slot).prev_index
             /\ InputAt(tx', slot).script_sig = InputAt(tx, slot).script_sig
             /\ InputAt(tx', slot).sequence = InputAt(tx, slot).sequence
             /\ \A k \in 0..(Len(tx.input) - 1) : k # slot => InputAt(tx', k) = InputAt(tx, k)
             /\ tx'.output = tx.output]_vars

C23_Witness ==
    /\ ret.op = "verify_input"
    /\ tx # Tx0
    /\ WithoutWitness(tx, slot) = Tx0

\* C24: a signature sign_input made for an input verifies whatever the
\* witnesses of the transaction's inputs hold and whatever signatures were
\* collected: the digest of an input is that of the unsigned transaction.
C24_VerifiesAfterSpend ==
    /\ (/\ ret.op = "verify_input" /\ ret.flip = 0 /\ ~ret.whole
        /\ SameInputAndAmount /\ ret.pk = PublicKeyOf(sig.sk)) => ret.ok
    /\ (ret.op = "signature_hash" /\ ret.ok) =>
           ret.hash = SignatureHash(Tx0, target, SigningScript(signer), ret.value)
    /\ \A i \in 0..(Len(tx.input) - 1) :
           SignatureHash(tx, i, SigningScript(signer), PrevTx(PrevOutputs))
               = SignatureHash(Tx0, i, SigningScript(signer), PrevTx(PrevOutputs))

C24_Witness ==
    /\ ret.op = "verify_input"
    /\ ret.ok
    /\ slot = target
    /\ InputAt(tx, target).witness # <<>>
    /\ signer.kind = "p2wsh"
    /\ Len(sigs) = 2
    /\ sigs[1].sk # sig.sk

\* C25: the P2WSH spend_input checks nothing: with any number k of
\* signatures, valid for the input or not, it succeeds and leaves a witness
\* of k + 2 elements.
C25_NoSignatureCheck ==
    (ret.op = "spend_input" /\ signer.kind = "p2wsh") =>
        /\ ret.ok
        /\ ret.err = ""
        /\ Len(SpentWitness) = Len(sigs) + 2

C25_Witness ==
    /\ ret.op = "spend_input"
    /\ signer.kind = "p2wsh"
    /\ Parse(signer.script).quorum = 1
    /\ Len(sigs) = 2
    /\ sigs[1].index # slot
    /\ Len(SpentWitness) = 4

\* C26: spend_input replaces the witness: the witness it leaves is made of
\* the signatures of this call alone, whatever the input held before, and a
\* second call with the same signatures leaves the transaction as it is.
C26_Replaces ==
    /\ [](ret.op = "spend_input" => SpentWitness = WitnessData(signer, sig, sigs))
    /\ [][(ret.op = "spend_input" /\ ret'.op = "spend_input") => tx' = tx]_vars

C26_Witness ==
    /\ ret.op = "spend_input"
    /\ ret.before # <<>>
    /\ ret.before # SpentWitness
    /\ SpentWitness = WitnessData(signer, sig, sigs)

(***************************************************************************)
(* Properties of the value source.                                         *)
(***************************************************************************)
\* the calls that resolve an amount
ResolvingCalls == {"signature_hash", "sign_input", "verify_input"}

\* C27: with PrevTx(t), signature_hash, sign_input and verify_input abort
\* when the input's previous-output index is not below the number of t's
\* outputs; otherwise they use the value of that output of t, whether or
\* not t is the transaction the input refers to.
C27_PrevTxAborts ==
    (ret.op \in ResolvingCalls /\ ret.value.form = "PrevTx") =>
        LET n == InputAt(tx, target).prev_index IN
        IF n >= Len(ret.value.outputs)
        THEN ~ret.ok /\ ret.err = "panic"
        ELSE /\ ret.err # "panic"
             /\ ret.op = "signature_hash" =>
                   /\ ret.ok
                   /\ ret.hash = SighashAll(tx, target, SigningScript(signer),
                                            ret.value.outputs[n + 1])
             /\ ret.op = "sign_input" =>
                   /\ ret.ok
                   /\ sig.amount = ret.value.outputs[n + 1]

C27_Witness ==
    /\ ret.op = "sign_input"
    /\ ret.value.form = "PrevTx"
    /\ InputAt(tx, target).prev_index = Len(ret.value.outputs)
    /\ ret.err = "panic"

====
